---- MODULE Spec2Model ----
(***************************************************************************)
(* State-machine model of src/python_bridge.py, the command-line bridge    *)
(* between the Express backend and the Python intelligent agent.           *)
(*                                                                         *)
(* One behaviour is one process: it starts at the entry of main() with the *)
(* module-level state of line 37 (agent = None), parses sys.argv, runs at  *)
(* most one handler, prints the Result and exits.  The collaborators       *)
(* (IntelligentAgent and its methods) are the environment: every call      *)
(* either returns a value or raises, chosen nondeterministically.          *)
(*                                                                         *)
(* Text conventions.  Python strings are TLA+ strings built with \o.  The  *)
(* source's non-ASCII symbols are written as ASCII names in brackets       *)
(* ("[brain]" for the brain emoji) and the bullet as "*".  A bytes object  *)
(* returned by the agent is written by its repr, "b'raw'".                 *)
(***************************************************************************)
EXTENDS Integers, Sequences, FiniteSets, TLC

VARIABLES
    argv,        \* sys.argv
    pc,          \* position of the process in the code
    agent,       \* the module-level global `agent` (line 37)
    handler,     \* the handler main() called, "none" before
    command,     \* main(): command
    args,        \* main(): args
    message,     \* handler parameter
    user_id,     \* handler parameter
    openLoops,   \* number of event loops created and not yet closed
    loopsCreated,\* number of asyncio.new_event_loop() calls
    response,    \* handler local: the value the agent returned
    exc,         \* the exception in flight, NoFault when none
    analysis,    \* analyze_conversation(): analysis
    result,      \* main(): result
    agentCalls,  \* calls received by the collaborator, in order
    stdout,      \* documents written to the primary stream
    stderr,      \* entries written to the secondary stream
    exitCode     \* exit status, meaningful when pc = "exited"

vars == <<argv, pc, agent, handler, command, args, message, user_id, openLoops,
          loopsCreated, response, exc, analysis, result, agentCalls,
          stdout, stderr, exitCode>>

----------------------------------------------------------------------------
(* Bounds of the model *)

MaxArgs == 2
MaxTopics == 2
MaxInsights == 2
MaxMessages == 2

----------------------------------------------------------------------------
(* Values *)

None == "None"
NoFault == "<no exception>"
Unset == [unset |-> TRUE]
NoAnalysis == [has_conversation |-> FALSE, absent |-> TRUE]

Script == "python_bridge.py"
Commands == {"process_message", "clear_conversation", "get_help",
             "test_tools", "analyze_conversation"}
CommandNames == Commands \cup {"foo_bar"}
ArgValues == {"web-user", "alice"}

SeqsUpTo(S, n) == UNION {[1..k -> S] : k \in 0..n}

Argvs == {<<Script>>} \cup
         {<<Script, c>> \o a : c \in CommandNames, a \in SeqsUpTo(ArgValues, MaxArgs)}

\* what the collaborator may return or raise
ConstructionFaults == {"missing API key"}
OperationFaults == {"agent timeout"}
AgentReplies == {"Hello! How can I help?", "b'raw'"}
NonJsonValues == {"b'raw'"}

----------------------------------------------------------------------------
(* Streams *)

Text(s) == [text |-> s]
JsonDumps(r) == [json |-> r]

JsonSerializable(r) ==
    ~("response" \in DOMAIN r /\ r.response \in NonJsonValues)

DebugToStdout == "stdout"
DebugStream == "stderr"

ToStdout(entries) == IF DebugStream = "stdout" THEN entries ELSE <<>>
ToStderr(entries) == IF DebugStream = "stderr" THEN entries ELSE <<>>

Debug(entries) ==
    /\ stdout' = stdout \o ToStdout(entries)
    /\ stderr' = stderr \o ToStderr(entries)

----------------------------------------------------------------------------
(* Result shapes *)

InitError == "Failed to initialize intelligent agent"
Apology == "I'm sorry, but I'm having trouble connecting to my AI brain right now. Please try again later."

Success(r) == [response |-> r, success |-> TRUE]

process_message_unavailable == [error |-> InitError, response |-> Apology]
clear_conversation_unavailable == [error |-> InitError, success |-> FALSE]
analyze_conversation_unavailable == [error |-> InitError, response |-> Apology]

process_message_fault_flagged(e) ==
    [error |-> e, success |-> FALSE,
     response |-> "I encountered an error while processing your message: " \o e]
process_message_fault(e) ==
    [error |-> e,
     response |-> "I encountered an error while processing your message: " \o e]
clear_conversation_fault(e) == [error |-> e, success |-> FALSE]
get_help_fault(e) ==
    [error |-> e,
     response |-> "I encountered an error while getting help: " \o e]
analyze_conversation_fault(e) ==
    [error |-> e,
     response |-> "I encountered an error while analyzing our conversation: " \o e]

MessageRequired == [error |-> "Message required for process_message command"]
UnknownCommandUnnamed(c) == [error |-> "Unknown command"]
UnknownCommand(c) == [error |-> "Unknown command: " \o c]
NoCommandProvided == [error |-> "No command provided"]

NoneTypeHasNo(attr) == "'NoneType' object has no attribute '" \o attr \o "'"
NotSerializable == "Object of type bytes is not JSON serializable"

----------------------------------------------------------------------------
(* main(): argument parsing *)

process_message_user_id_other(a) == IF Len(a) > 1 THEN a[2] ELSE "default-user"
process_message_user_id(a) == IF Len(a) > 1 THEN a[2] ELSE "web-user"
clear_conversation_user_id(a) == IF Len(a) > 0 THEN a[1] ELSE "web-user"
analyze_conversation_user_id(a) == IF Len(a) > 0 THEN a[1] ELSE "web-user"

\* the default values of the handlers' user_id parameters
HandlerDefault(h) ==
    CASE h = "process_message" -> "web-user"
      [] h = "clear_conversation" -> "web-user"
      [] h = "analyze_conversation" -> "web-user"

----------------------------------------------------------------------------
Init ==
    /\ argv \in Argvs
    /\ pc = "main"
    /\ agent = None
    /\ handler = "none"
    /\ command = None
    /\ args = <<>>
    /\ message = None
    /\ user_id = None
    /\ openLoops = 0
    /\ loopsCreated = 0
    /\ response = None
    /\ exc = NoFault
    /\ analysis = NoAnalysis
    /\ result = Unset
    /\ agentCalls = <<>>
    /\ stdout = <<>>
    /\ stderr = <<>>
    /\ exitCode = 0

\* main() lines 251-253
NoCommand ==
    /\ pc = "main"
    /\ Len(argv) < 2
    /\ stderr' = Append(stderr, JsonDumps(NoCommandProvided))
    /\ exitCode' = 1
    /\ pc' = "exited"
    /\ UNCHANGED <<argv, agent, handler, command, args, message, user_id,
                   openLoops, loopsCreated, response, exc, analysis, result,
                   agentCalls, stdout>>

\* main() lines 255-282: parse the command and call its handler
Dispatch ==
    /\ pc = "main"
    /\ Len(argv) >= 2
    /\ LET c == argv[2]
           a == SubSeq(argv, 3, Len(argv))
       IN /\ command' = c
          /\ args' = a
          /\ CASE c = "process_message" /\ Len(a) < 1 ->
                    /\ result' = MessageRequired
                    /\ pc' = "print"
                    /\ UNCHANGED <<handler, message, user_id>>
               [] c = "process_message" /\ Len(a) >= 1 ->
                    /\ message' = a[1]
                    /\ user_id' = process_message_user_id(a)
                    /\ handler' = c
                    /\ pc' = c
                    /\ UNCHANGED result
               [] c = "clear_conversation" ->
                    /\ user_id' = clear_conversation_user_id(a)
                    /\ handler' = c
                    /\ pc' = c
                    /\ UNCHANGED <<message, result>>
               [] c = "analyze_conversation" ->
                    /\ user_id' = analyze_conversation_user_id(a)
                    /\ handler' = c
                    /\ pc' = c
                    /\ UNCHANGED <<message, result>>
               [] c \in {"get_help", "test_tools"} ->
                    /\ handler' = c
                    /\ pc' = c
                    /\ UNCHANGED <<message, user_id, result>>
               [] OTHER ->
                    /\ result' = UnknownCommand(c)
                    /\ pc' = "print"
                    /\ UNCHANGED <<handler, message, user_id>>
    /\ UNCHANGED <<argv, agent, openLoops, loopsCreated, response, exc,
                   analysis, agentCalls, stdout, stderr, exitCode>>

----------------------------------------------------------------------------
(* Lifecycle: the global agent and initialize_agent() *)

Call(op, a) == [op |-> op, args |-> a]
Constructor == "IntelligentAgent"
Constructions == Len(SelectSeq(agentCalls, LAMBDA c : c.op = Constructor))

\* `not agent`
NotAgent(a) == a = None

RetryAfterInitFailure(h) == h

\* where a handler goes when initialize_agent() returned False: it returns
\* the unavailable Result to main(), which prints it
AfterInitFailure(h) == "print"

\* the `if not agent: if not initialize_agent(): return unavailable` prologue
\* of handler h; initialize_agent() is lines 39-51
EnsureReady(h, unavailable, next) ==
    /\ pc = h
    /\ IF ~NotAgent(agent)
       THEN /\ pc' = next
            /\ UNCHANGED <<agent, agentCalls, result, stdout, stderr>>
       ELSE /\ agentCalls' = Append(agentCalls, Call(Constructor, <<>>))
            /\ \/ LET id == "agent#" \o ToString(Constructions + 1)
                  IN /\ agent' = id
                     /\ Debug(<<Text("Intelligent agent initialized successfully with ID: " \o id)>>)
                     /\ pc' = next
                     /\ UNCHANGED result
               \/ \E e \in ConstructionFaults :
                     /\ agent' = None
                     /\ Debug(<<Text("Failed to initialize agent: " \o e)>>)
                     /\ result' = unavailable
                     /\ pc' = AfterInitFailure(h)
    /\ UNCHANGED <<argv, handler, command, args, message, user_id, openLoops,
                   loopsCreated, response, exc, analysis, exitCode>>

----------------------------------------------------------------------------
(* Async bridge: the event loop of process_message() and get_help() *)

LoopsNotClosed(n) == n
LoopsAfterClose(n) == n - 1

\* asyncio.new_event_loop(); asyncio.set_event_loop(loop)
NewLoop(h, next) ==
    /\ pc = h
    /\ openLoops' = openLoops + 1
    /\ loopsCreated' = loopsCreated + 1
    /\ pc' = next
    /\ UNCHANGED <<argv, agent, handler, command, args, message, user_id,
                   response, exc, analysis, result, agentCalls, stdout,
                   stderr, exitCode>>

\* loop.run_until_complete(agent.<op>(...)): evaluating agent.<op> raises
\* AttributeError when agent is None, before anything runs
RunUntilComplete(h, op, a, before, next) ==
    /\ pc = h
    /\ IF agent = None
       THEN /\ exc' = NoneTypeHasNo(op)
            /\ Debug(before)
            /\ UNCHANGED <<response, agentCalls>>
       ELSE /\ agentCalls' = Append(agentCalls, Call(op, a))
            /\ \/ \E r \in AgentReplies :
                     /\ response' = r
                     /\ exc' = NoFault
                     /\ Debug(before \o
                              IF op = "process_message"
                              THEN <<Text("Agent response: " \o r \o "...")>>
                              ELSE <<>>)
               \/ \E e \in OperationFaults :
                     /\ exc' = e
                     /\ Debug(before)
                     /\ UNCHANGED response
    /\ pc' = next
    /\ UNCHANGED <<argv, agent, handler, command, args, message, user_id,
                   openLoops, loopsCreated, analysis, result, exitCode>>

\* finally: loop.close(); then the return of the try body, or the handler's
\* except clause
\* the Result of the except clause of the handler `who`
ExceptResult(who, e) ==
    IF who = "process_message" THEN process_message_fault(e)
    ELSE get_help_fault(e)

Finally(h, who, label) ==
    /\ pc = h
    /\ openLoops' = LoopsAfterClose(openLoops)
    /\ IF exc = NoFault
       THEN /\ result' = Success(response)
            /\ UNCHANGED <<stdout, stderr>>
       ELSE /\ result' = ExceptResult(who, exc)
            /\ Debug(<<Text(label \o exc)>>)
    /\ exc' = NoFault
    /\ pc' = "print"
    /\ UNCHANGED <<argv, agent, handler, command, args, message, user_id,
                   loopsCreated, response, analysis, agentCalls, exitCode>>

----------------------------------------------------------------------------
(* process_message(), lines 53-91 *)

process_message_EnsureReady ==
    /\ handler = "process_message"
    /\ EnsureReady("process_message", process_message_unavailable, "pm_new_loop")

process_message_NewLoop ==
    /\ handler = "process_message"
    /\ NewLoop("pm_new_loop", "pm_run")

process_message_Run ==
    /\ handler = "process_message"
    /\ RunUntilComplete("pm_run", "process_message", <<message, user_id>>,
          <<Text("Processing message: '" \o message \o "' for user " \o user_id)>>,
          "pm_finally")

process_message_Finally ==
    /\ handler = "process_message"
    /\ Finally("pm_finally", "process_message", "Error processing message: ")

(* get_help(), lines 117-129 *)

get_help_NewLoop ==
    /\ handler = "get_help"
    /\ NewLoop("get_help", "gh_run")

get_help_Run ==
    /\ handler = "get_help"
    /\ RunUntilComplete("gh_run", "get_help_message", <<>>, <<>>, "gh_finally")

get_help_Finally ==
    /\ handler = "get_help"
    /\ Finally("gh_finally", "get_help", "Error getting help: ")

(* clear_conversation(), lines 93-115 *)

clear_conversation_EnsureReady ==
    /\ handler = "clear_conversation"
    /\ EnsureReady("clear_conversation", clear_conversation_unavailable, "cc_call")

clear_conversation_Call ==
    /\ pc = "cc_call"
    /\ agentCalls' = Append(agentCalls, Call("clear_conversation", <<user_id>>))
    /\ \/ \E r \in AgentReplies :
             /\ result' = Success(r)
             /\ UNCHANGED <<stdout, stderr>>
       \/ \E e \in OperationFaults :
             /\ result' = clear_conversation_fault(e)
             /\ Debug(<<Text("Error clearing conversation: " \o e)>>)
    /\ pc' = "print"
    /\ UNCHANGED <<argv, agent, handler, command, args, message, user_id,
                   openLoops, loopsCreated, response, exc, analysis, exitCode>>

----------------------------------------------------------------------------
(* Response formatter of analyze_conversation(), lines 141-193 *)

\* str.title() on the words the model uses
Title(s) ==
    CASE s = "positive" -> "Positive"
      [] s = "neutral" -> "Neutral"
      [] s = "high" -> "High"
      [] s = "low" -> "Low"
      [] s = "user" -> "User"
      [] s = "assistant" -> "Assistant"
      [] s = "dictionary" -> "Dictionary"
      [] s = "weather" -> "Weather"
      [] s = "web_search" -> "Web_Search"
      [] s = "gmail" -> "Gmail"
      [] s = "sheets" -> "Sheets"

RECURSIVE Join(_, _)
\* sep.join(parts)
Join(parts, sep) ==
    IF Len(parts) = 0 THEN ""
    ELSE IF Len(parts) = 1 THEN parts[1]
    ELSE parts[1] \o sep \o Join(Tail(parts), sep)

PluralAboveOne(n) == IF n > 1 THEN "s" ELSE ""

\* 's' if len(topics) != 1 else ''
Plural(n) == IF n # 1 THEN "s" ELSE ""

Bullet(insight) == "* " \o insight

role_emoji(role) == IF role = "user" THEN "[bust]" ELSE "[robot]"

MessageLine(msg) ==
    role_emoji(msg.role) \o " **" \o Title(msg.role) \o "** (" \o msg.timestamp
        \o "): " \o msg.content

ReportTitle == "[brain] **Conversation Analysis Report** [chart]"
StatisticsHeader == "[chart-up] **Conversation Statistics:**"
TopicsHeader == "[target] **Topics Discussed:**"
SentimentHeader == "[smile] **Sentiment Analysis:**"
InsightsHeader == "[bulb] **Key Insights:**"
RecentHeader == "[cycle] **Recent Messages:**"
SummaryHeader == "[thought] **Analysis Summary:**"
Closing == "I'm here to continue helping you with any questions or tasks! [rocket]"

StatisticsSection(summary) ==
    << StatisticsHeader,
       "* **Total Messages:** " \o ToString(summary.total_messages),
       "* **Your Messages:** " \o ToString(summary.user_messages),
       "* **My Responses:** " \o ToString(summary.assistant_messages),
       "* **Duration:** " \o summary.conversation_duration_hours \o " hours",
       "* **Started:** " \o summary.conversation_start,
       "* **Last Activity:** " \o summary.last_activity >>

TopicsSection(topics) == << TopicsHeader, "* " \o Join(topics, ", ") >>

SentimentSection(sentiment) ==
    << SentimentHeader,
       "* **Overall Tone:** " \o Title(sentiment.overall_sentiment),
       "* **Engagement Level:** " \o Title(sentiment.engagement_level),
       "* **Questions Asked:** " \o ToString(sentiment.question_count) >>

InsightsSection(insights) ==
    <<InsightsHeader>> \o [i \in 1..Len(insights) |-> Bullet(insights[i])]

RecentSection(recent_messages) ==
    <<RecentHeader>>
        \o [i \in 1..Len(recent_messages) |-> MessageLine(recent_messages[i])]

EngagementLine(sentiment) ==
    "This conversation shows " \o sentiment.engagement_level
        \o " engagement with a " \o sentiment.overall_sentiment \o " tone. "

TopicCountLine(topics, summary) ==
    "We've covered " \o ToString(Len(topics)) \o " main topic"
        \o Plural(Len(topics)) \o " over "
        \o summary.conversation_duration_hours \o " hours. "

SummarySection(a) ==
    << SummaryHeader, EngagementLine(a.sentiment),
       TopicCountLine(a.topics, a.summary), Closing >>

\* response_parts, lines 151-191
ResponseParts(a) ==
    <<ReportTitle, "">> \o StatisticsSection(a.summary) \o <<"">>
        \o TopicsSection(a.topics) \o <<"">>
        \o SentimentSection(a.sentiment) \o <<"">>
        \o InsightsSection(a.insights) \o <<"">>
        \o RecentSection(a.recent_messages) \o <<"">>
        \o SummarySection(a)

Greeting == "We haven't had any previous conversations in this session. This is our first interaction! [smile]"

\* lines 141-193: the Result for an analysis the collaborator returned
FormatAnalysis(a) ==
    IF ~a.has_conversation THEN Success(Greeting)
    ELSE Success(Join(ResponseParts(a), "\n"))

(* the Conversation Analyses the collaborator may return *)
TopicValues == {"weather", "email"}
InsightValues == {"asks many questions", "prefers short answers"}
Roles == {"user", "assistant"}
Summaries ==
    {[total_messages |-> 4, user_messages |-> 2, assistant_messages |-> 2,
      conversation_duration_hours |-> "0.5",
      conversation_start |-> "2024-01-01 10:00:00",
      last_activity |-> "2024-01-01 10:30:00"]}
Sentiments ==
    {[overall_sentiment |-> o, engagement_level |-> "high", question_count |-> 1]
        : o \in {"positive", "neutral"}}
RecentMessages ==
    {[role |-> r, timestamp |-> "10:29:00", content |-> "hello"] : r \in Roles}

Analyses ==
    {[has_conversation |-> FALSE]} \cup
    [has_conversation : {TRUE},
     summary : Summaries,
     topics : SeqsUpTo(TopicValues, MaxTopics),
     sentiment : Sentiments,
     insights : SeqsUpTo(InsightValues, MaxInsights),
     recent_messages : SeqsUpTo(RecentMessages, MaxMessages)]

----------------------------------------------------------------------------
(* analyze_conversation(), lines 131-197 *)

analyze_conversation_EnsureReady ==
    /\ handler = "analyze_conversation"
    /\ EnsureReady("analyze_conversation", analyze_conversation_unavailable,
                   "ac_analyze")

analyze_conversation_Analyze ==
    /\ pc = "ac_analyze"
    /\ agentCalls' = Append(agentCalls, Call("analyze_conversation", <<user_id>>))
    /\ \/ \E a \in Analyses :
             /\ analysis' = a
             /\ result' = FormatAnalysis(a)
             /\ UNCHANGED <<stdout, stderr>>
       \/ \E e \in OperationFaults :
             /\ result' = analyze_conversation_fault(e)
             /\ Debug(<<Text("Error analyzing conversation: " \o e)>>)
             /\ UNCHANGED analysis
    /\ pc' = "print"
    /\ UNCHANGED <<argv, agent, handler, command, args, message, user_id,
                   openLoops, loopsCreated, response, exc, exitCode>>

----------------------------------------------------------------------------
(* test_tools(), lines 199-247 *)

test_queries ==
    [dictionary |-> "test", weather |-> "current weather",
     web_search |-> "latest news", gmail |-> "email functionality",
     sheets |-> "spreadsheet access"]

ToolResults ==
    [t \in DOMAIN test_queries |->
        [status |-> "success", query |-> test_queries[t],
         response |-> Title(t) \o " tool is available and working"]]

test_tools_Unguarded(a) == [test_results |-> ToolResults, success |-> TRUE]

test_tools_Result(a) ==
    IF NotAgent(a)
    THEN [error |-> "Agent not initialized", success |-> FALSE]
    ELSE [test_results |-> ToolResults, success |-> TRUE]

test_tools ==
    /\ pc = "test_tools"
    /\ result' = test_tools_Result(agent)
    /\ pc' = "print"
    /\ UNCHANGED <<argv, agent, handler, command, args, message, user_id,
                   openLoops, loopsCreated, response, exc, analysis,
                   agentCalls, stdout, stderr, exitCode>>

----------------------------------------------------------------------------
(* main(), lines 284-288: print(json.dumps(result)), or the top-level except *)

PrintResult ==
    /\ pc = "print"
    /\ IF JsonSerializable(result)
       THEN /\ stdout' = Append(stdout, JsonDumps(result))
            /\ exitCode' = 0
            /\ UNCHANGED stderr
       ELSE /\ stderr' = Append(stderr, JsonDumps([error |-> NotSerializable]))
            /\ exitCode' = 1
            /\ UNCHANGED stdout
    /\ pc' = "exited"
    /\ UNCHANGED <<argv, agent, handler, command, args, message, user_id,
                   openLoops, loopsCreated, response, exc, analysis, result,
                   agentCalls>>

----------------------------------------------------------------------------
Next ==
    \/ NoCommand
    \/ Dispatch
    \/ process_message_EnsureReady
    \/ process_message_NewLoop
    \/ process_message_Run
    \/ process_message_Finally
    \/ clear_conversation_EnsureReady
    \/ clear_conversation_Call
    \/ get_help_NewLoop
    \/ get_help_Run
    \/ get_help_Finally
    \/ analyze_conversation_EnsureReady
    \/ analyze_conversation_Analyze
    \/ test_tools
    \/ PrintResult

Spec == Init /\ [][Next]_vars

----------------------------------------------------------------------------
(* Properties *)

Exited == pc = "exited"
Returned == pc \in {"print", "exited"}
Has(r, f) == f \in DOMAIN r
Last(seq) == seq[Len(seq)]
UserHandlers == {"process_message", "clear_conversation", "analyze_conversation"}
AgentHandlers == UserHandlers \cup {"get_help"}
ConstructionFailed == Returned /\ Constructions >= 1 /\ agent = None
CallsOf(op) == SelectSeq(agentCalls, LAMBDA c : c.op = op)

TypeOK ==
    /\ pc \in {"main", "print", "exited", "pm_new_loop", "pm_run", "pm_finally",
               "cc_call", "gh_run", "gh_finally", "ac_analyze"} \cup Commands
    /\ exitCode \in {0, 1}
    /\ openLoops \in 0..1

\* C1 (as stated): for every supported command and every outcome, the Result
\* document written to the primary stream contains a `success` field.
C1_EveryResultHasSuccess ==
    (Exited /\ command \in Commands) =>
        \A i \in DOMAIN stdout : Has(stdout[i].json, "success")

\* C1 (amended): for every supported command, the Result document written to
\* the primary stream contains a `success` field exactly when it carries no
\* `error` field or the command is clear_conversation or test_tools.
C1_SuccessUnlessErrorResponse ==
    (Exited /\ command \in Commands) =>
        \A i \in DOMAIN stdout :
            Has(stdout[i].json, "success") <=>
                \/ ~Has(stdout[i].json, "error")
                \/ command \in {"clear_conversation", "test_tools"}

C1_Witness ==
    /\ Exited
    /\ command = "process_message"
    /\ agent # None
    /\ Len(stdout) = 1
    /\ Has(stdout[1].json, "error")
    /\ ~Has(stdout[1].json, "success")

\* C2: when agent construction fails, each of process_message,
\* clear_conversation and analyze_conversation returns a Result with an `error`
\* field and a non-empty `response` field; a process starts with no agent and
\* no construction attempted.
C2_InitFailureHasErrorAndResponse ==
    /\ pc = "main" => (agent = None /\ Constructions = 0)
    /\ (ConstructionFailed /\ handler \in UserHandlers) =>
            /\ Has(result, "error")
            /\ Has(result, "response")
            /\ result.response # ""

\* C3: every handler that uses the agent ensures the handle is Ready before
\* its first use of the agent, so the agent operation is only attempted on a
\* Ready handle, and a handler whose handle is not Ready returns the standard
\* "agent unavailable" Result.
C3_EnsureReadyBeforeUse ==
    /\ pc \in {"pm_run", "gh_run", "cc_call", "ac_analyze"} => agent # None
    /\ (Returned /\ handler \in AgentHandlers /\ agent = None) =>
            result = [error |-> "Failed to initialize intelligent agent",
                      response |-> Apology]

\* C4: with a command supplied, whatever fault agent construction or the agent
\* operation raises, the process writes exactly one Result document to the
\* primary stream, as its last action, and exits 0; it exits 1 with nothing on
\* the primary stream only when no command is supplied or a fault escapes to
\* the top level of main(), and then the error document is on the secondary
\* stream.
C4_OneResultThenExitZero ==
    /\ ~Exited => stdout = <<>>
    /\ (Exited /\ exitCode = 0) =>
            /\ Len(argv) >= 2
            /\ result # Unset
            /\ stdout = <<JsonDumps(result)>>
    /\ (Exited /\ Len(argv) >= 2 /\ Has(result, "error")) => exitCode = 0
    /\ (Exited /\ exitCode = 1) =>
            /\ stdout = <<>>
            /\ stderr # <<>>
            /\ \/ Len(argv) < 2 /\ Last(stderr) = [json |-> [error |-> "No command provided"]]
               \/ /\ Len(argv) >= 2
                  /\ ~JsonSerializable(result)
                  /\ Last(stderr) = [json |-> [error |-> NotSerializable]]

C4_Witness ==
    /\ Exited
    /\ exitCode = 0
    /\ handler = "process_message"
    /\ agent # None
    /\ Has(result, "error")
    /\ stdout = <<JsonDumps(result)>>

\* C5: an unknown command name yields exactly {error: "Unknown command:
\* <name>"} and process_message without arguments yields exactly {error:
\* "Message required for process_message command"}; the Result is on the
\* primary stream with exit status 0, and no agent is constructed, no event
\* loop created and no handler run.
C5_DispatcherFaults ==
    LET unknown == command # None /\ command \notin Commands
        noMessage == command = "process_message" /\ args = <<>>
    IN (unknown \/ noMessage) =>
            /\ Returned
            /\ unknown => result = [error |-> "Unknown command: " \o command]
            /\ noMessage =>
                 result = [error |-> "Message required for process_message command"]
            /\ agentCalls = <<>>
            /\ agent = None
            /\ loopsCreated = 0
            /\ handler = "none"
            /\ Exited => (exitCode = 0 /\ stdout = <<[json |-> result]>>)

C5_Witness ==
    /\ Exited
    /\ command = "foo_bar"
    /\ exitCode = 0
    /\ stdout = <<[json |-> [error |-> "Unknown command: foo_bar"]]>>

\* C6: for process_message, clear_conversation and analyze_conversation, an
\* invocation without a user identifier hands the agent the same user
\* identifier as one that passes "web-user", in every handler and in main().
C6_DefaultUserId ==
    /\ \A h \in UserHandlers : HandlerDefault(h) = "web-user"
    /\ (handler = "process_message"
            /\ (Len(args) = 1 \/ (Len(args) >= 2 /\ args[2] = "web-user"))) =>
            /\ user_id = "web-user"
            /\ \A i \in DOMAIN agentCalls :
                  agentCalls[i].op = "process_message" =>
                      agentCalls[i].args = <<args[1], "web-user">>
            /\ Returned /\ agent # None =>
                  stderr[2] = [text |-> "Processing message: '" \o args[1]
                                          \o "' for user web-user"]
    /\ (handler \in {"clear_conversation", "analyze_conversation"}
            /\ (args = <<>> \/ (Len(args) >= 1 /\ args[1] = "web-user"))) =>
            /\ user_id = "web-user"
            /\ \A i \in DOMAIN agentCalls :
                  agentCalls[i].op = handler =>
                      agentCalls[i].args = <<"web-user">>

C6_Witness ==
    /\ Exited
    /\ handler = "process_message"
    /\ Len(args) = 1
    /\ Len(CallsOf("process_message")) = 1
    /\ Has(result, "success")

\* C7: for an analysis with has_conversation true the response holds the six
\* sections in the order statistics, topics, sentiment, insights (one bullet
\* per insight, in order), recent messages (one line per message, in order),
\* closing summary; the summary says "topic" exactly when there is one topic
\* and "topics" for every other count.
C7_ReportSections ==
    (Returned /\ analysis.has_conversation) =>
        LET p == ResponseParts(analysis)
            n == Len(analysis.topics)
            at(h) == CHOOSE i \in DOMAIN p : p[i] = h
            headers == <<StatisticsHeader, TopicsHeader, SentimentHeader,
                         InsightsHeader, RecentHeader, SummaryHeader>>
        IN /\ result = [response |-> Join(p, "\n"), success |-> TRUE]
           /\ \A k \in DOMAIN headers :
                 Cardinality({i \in DOMAIN p : p[i] = headers[k]}) = 1
           /\ \A k \in 1..5 : at(headers[k]) < at(headers[k + 1])
           /\ p[at(TopicsHeader) + 1] = "* " \o Join(analysis.topics, ", ")
           /\ at(SentimentHeader) = at(TopicsHeader) + 3
           /\ at(InsightsHeader) = at(SentimentHeader) + 5
           /\ \A k \in DOMAIN analysis.insights :
                 p[at(InsightsHeader) + k] = "* " \o analysis.insights[k]
           /\ at(RecentHeader) = at(InsightsHeader) + Len(analysis.insights) + 2
           /\ \A k \in DOMAIN analysis.recent_messages :
                 p[at(RecentHeader) + k] = MessageLine(analysis.recent_messages[k])
           /\ at(SummaryHeader) =
                 at(RecentHeader) + Len(analysis.recent_messages) + 2
           /\ Len(p) = at(SummaryHeader) + 3
           /\ p[at(SummaryHeader) + 2] =
                 "We've covered " \o ToString(n)
                    \o (IF n = 1 THEN " main topic over " ELSE " main topics over ")
                    \o analysis.summary.conversation_duration_hours \o " hours. "

C7_Witness ==
    /\ Exited
    /\ analysis.has_conversation
    /\ Len(analysis.topics) = 1
    /\ Len(analysis.insights) = 2
    /\ analysis.insights[1] # analysis.insights[2]
    /\ Len(analysis.recent_messages) = 2
    /\ Len(stdout) = 1

\* C8: in one process agent construction is attempted at most once, a failed
\* construction is not retried, and a Ready handle is never reset nor replaced
\* by another instance.
C8_Lifecycle ==
    /\ [](/\ Constructions <= 1
          /\ agent # None => (agent = "agent#1" /\ Constructions = 1))
    /\ [][agent # None => agent' = agent]_vars
    /\ [][Constructions' # Constructions => (agent = None /\ Constructions = 0)]_vars

C8_Witness ==
    /\ Exited
    /\ Constructions = 1
    /\ agent = None
    /\ handler \in UserHandlers

\* C9: each asynchronous agent call of process_message and get_help runs in a
\* freshly created event loop that is closed on every exit path, so at most
\* one loop is ever open, the loop is closed before the Result is emitted and
\* none is open at exit.
C9_LoopClosedOnEveryPath ==
    /\ openLoops \in 0..1
    /\ loopsCreated <= 1
    /\ pc \in {"pm_run", "gh_run"} => (openLoops = 1 /\ loopsCreated = 1)
    /\ (Len(CallsOf("process_message")) + Len(CallsOf("get_help_message")) > 0)
            => loopsCreated = 1
    /\ Returned => openLoops = 0
    /\ (Returned /\ handler = "get_help") => loopsCreated = 1

C9_Witness ==
    /\ Exited
    /\ handler = "get_help"
    /\ agent = None
    /\ Has(result, "error")
    /\ loopsCreated = 1
    /\ openLoops = 0

\* C10: a process started with the command test_tools never attempts agent
\* construction, so its Result is always {error: "Agent not initialized",
\* success: false} and never the {test_results, success: true} shape.
C10_TestToolsNeverInitialized ==
    command = "test_tools" =>
        /\ agentCalls = <<>>
        /\ agent = None
        /\ ~Has(result, "test_results")
        /\ Returned =>
              result = [error |-> "Agent not initialized", success |-> FALSE]
        /\ Exited => /\ exitCode = 0
                     /\ stdout = <<[json |-> [error |-> "Agent not initialized",
                                              success |-> FALSE]]>>

C10_Witness ==
    /\ Exited
    /\ command = "test_tools"
    /\ handler = "test_tools"
    /\ Len(stdout) = 1
====
